---- MODULE Spec2Model ----
(***************************************************************************)
(* A model of deps_to_graph.py: the conversion of a Rosette annotated      *)
(* document (ADM) into a Graphviz digraph description, and the command     *)
(* line pipeline around it.                                                *)
(*                                                                         *)
(* Text is modelled as a sequence of one-character strings, so that        *)
(* escaping, number formatting and line structure are computed character   *)
(* by character.  A list of dicts is a sequence of records; a reference to *)
(* a dict of a list is its position in that list.                          *)
(***************************************************************************)
EXTENDS Integers, Sequences, FiniteSets, TLC

VARIABLES
    \* the graph builder and its callers
    adm,            \* the document: [token |-> list of dicts, dependency |-> list of dicts]
    index_labels,   \* the index_labels argument of deps_to_graph
    calls,          \* number of deps_to_graph invocations made on adm so far
    fresh,          \* the document as it was fetched (before any invocation)
    adm_in,         \* the document as it was when the latest invocation began
    result,         \* text returned by the latest invocation
    first_result,   \* text returned by the first invocation
    \* the accessor tokens()
    ordered,        \* <<tokens(adm)>> once it was called, <<>> before
    reordered,      \* <<tokens applied to its own result>> once called, <<>> before
    \* escape and the statement templates
    text,           \* a token text (or a relation label)
    label,          \* <<escape(text)>> once it was called, <<>> before
    stmt,           \* the latest node or edge statement formatted from text
    \* the command line run
    pc,             \* the statement of __main__ the run is at
    env_key,        \* os.environ.get('ROSETTE_USER_KEY'): <<>> for None, <<s>> for s
    arg_key,        \* args.key: <<>> for None, <<s>> for s
    prompt,         \* what getpass returned: <<>> while not called, <<s>> for s
    key,            \* the key given to API(): <<>> while unset, <<s>> for s
    out_arg,        \* args.output: <<>> for None, <<name>> for a file name
    fetches,        \* requests made to the document service
    dot,            \* what the renderer did: "unused", "missing", "stderr", "ok"
    output,         \* the output stream or file: "none", "opened", "written"
    error           \* the statement that raised, "none" while none did

graph_vars == <<adm, index_labels, calls, fresh, adm_in, result, first_result>>
token_vars == <<ordered, reordered>>
escape_vars == <<text, label, stmt>>
cli_vars == <<pc, env_key, arg_key, prompt, key, out_arg, fetches, dot, output, error>>
vars == <<graph_vars, token_vars, escape_vars, cli_vars>>

(***************************************************************************)
(* Bounds of the model.                                                    *)
(***************************************************************************)
MaxTokens == 2      \* tokens of a document given to deps_to_graph
MaxEdges == 3       \* dependency edges of a document
MaxCalls == 2       \* invocations of deps_to_graph on one document
MaxItems == 3       \* tokens of a document given to tokens()
MaxOffset == 1      \* largest character offset of such a token
MaxLen == 3         \* characters of a text given to escape

(***************************************************************************)
(* Module constants of the program.                                        *)
(***************************************************************************)
ROOT == <<"r", "o", "o", "t">>

STYLE ==
    <<"\n", "e", "d", "g", "e", " ", "[", "d", "i", "r", "=", "\"", "f", "o", "r",
      "w", "a", "r", "d", "\"", ",", " ", "a", "r", "r", "o", "w", "h", "e", "a",
      "d", "=", "\"", "o", "p", "e", "n", "\"", ",", " ", "a", "r", "r", "o", "w",
      "s", "i", "z", "e", "=", "0", ".", "5", "]", "\n", "n", "o", "d", "e", " ",
      "[", "s", "h", "a", "p", "e", "=", "\"", "b", "o", "x", "\"", ",", " ", "h",
      "e", "i", "g", "h", "t", "=", "0", "]", "\n">>

(***************************************************************************)
(* str(int): the decimal text of an integer, as '{}'.format(i) gives it.   *)
(***************************************************************************)
Digits == <<"0", "1", "2", "3", "4", "5", "6", "7", "8", "9">>

RECURSIVE NatStr(_)
NatStr(n) ==
    IF n < 10 THEN <<Digits[n + 1]>>
    ELSE NatStr(n \div 10) \o <<Digits[(n % 10) + 1]>>

IntStr(i) == IF i < 0 THEN <<"-">> \o NatStr(-i) ELSE NatStr(i)

\* NODE = '{index} [label="{token}"]\n'
NODE(index, token) ==
    index \o <<" ", "[", "l", "a", "b", "e", "l", "=", "\"">> \o token
          \o <<"\"", "]", "\n">>

\* EDGE = '{governorTokenIndex} -> {dependencyTokenIndex} [label="{relationship}"]'
EDGE(edge) ==
    IntStr(edge.governorTokenIndex) \o <<" ", "-", ">", " ">>
        \o IntStr(edge.dependencyTokenIndex)
        \o <<" ", "[", "l", "a", "b", "e", "l", "=", "\"">> \o edge.relationship
        \o <<"\"", "]">>

(***************************************************************************)
(* escape: re.sub(r'([\[\]()"\\])', r'\\\1', token).  The pattern matches  *)
(* one character of the class at a time; every match is replaced by a      *)
(* backslash followed by the matched character, everything else is copied. *)
(***************************************************************************)
Special == {"[", "]", "(", ")", "\"", "\\"}

\* Mutant of escape: the parentheses are missing from the character class.
RECURSIVE escape_no_parens(_)
escape_no_parens(token) ==
    IF token = <<>> THEN <<>>
    ELSE (IF Head(token) \in {"[", "]", "\"", "\\"}
          THEN <<"\\", Head(token)>> ELSE <<Head(token)>>)
            \o escape_no_parens(Tail(token))

RECURSIVE escape(_)
escape(token) ==
    IF token = <<>> THEN <<>>
    ELSE (IF Head(token) \in Special THEN <<"\\", Head(token)>> ELSE <<Head(token)>>)
            \o escape(Tail(token))

(***************************************************************************)
(* sorted(items, key=...): Python's sort is stable.  The result holds the  *)
(* same dict objects as the input list, so it is modelled as the sequence  *)
(* of positions (references) into items, in sorted order.  A key is a pair *)
(* of integers, compared as Python compares tuples.                        *)
(***************************************************************************)
\* Mutant of KeyLess: "not greater" instead of "less", which makes the sort
\* put an item before the items of equal key.
KeyLessOrEqual(a, b) == a[1] < b[1] \/ (a[1] = b[1] /\ a[2] <= b[2])

KeyLess(a, b) == a[1] < b[1] \/ (a[1] = b[1] /\ a[2] < b[2])

\* Insert reference r after every reference whose key is not greater.
RECURSIVE InsertRef(_, _, _)
InsertRef(refs, r, keys) ==
    IF refs = <<>> THEN <<r>>
    ELSE IF KeyLess(keys[r], keys[Head(refs)]) THEN <<r>> \o refs
    ELSE <<Head(refs)>> \o InsertRef(Tail(refs), r, keys)

RECURSIVE SortedPrefix(_, _)
SortedPrefix(keys, k) ==
    IF k = 0 THEN <<>> ELSE InsertRef(SortedPrefix(keys, k - 1), k, keys)

\* keys[k] is the key of the k-th item of the list being sorted.
sorted_refs(keys) == SortedPrefix(keys, Len(keys))

Deref(items, refs) == [k \in 1..Len(refs) |-> items[refs[k]]]

\* extent(obj): obj.get('startOffset', -1), obj.get('endOffset', -1)
extent(obj) ==
    << IF "startOffset" \in DOMAIN obj THEN obj.startOffset ELSE -1,
       IF "endOffset" \in DOMAIN obj THEN obj.endOffset ELSE -1 >>

\* The references held by the list tokens(adm) returns.
token_refs(doc) == sorted_refs([k \in 1..Len(doc.token) |-> extent(doc.token[k])])

\* tokens(adm): sorted(adm['attributes']['token']['items'], key=extent)
tokens(doc) == Deref(doc.token, token_refs(doc))

\* Mutant of edge_key: the two fields in the other order.
edge_key_swapped(edge) == <<edge.dependencyTokenIndex, edge.governorTokenIndex>>

\* itemgetter('governorTokenIndex', 'dependencyTokenIndex')
edge_key(edge) == <<edge.governorTokenIndex, edge.dependencyTokenIndex>>

\* The references held by the list dependencies(adm) returns.
dependency_refs(doc) ==
    sorted_refs([k \in 1..Len(doc.dependency) |-> edge_key(doc.dependency[k])])

\* dependencies(adm): sorted(adm['attributes']['dependency']['items'], key=...)
dependencies(doc) == Deref(doc.dependency, dependency_refs(doc))

(***************************************************************************)
(* deps_to_graph.  The first loop appends one node statement per token.    *)
(***************************************************************************)
token_label(i, token, flag) ==
    (IF flag THEN <<"(">> \o IntStr(i) \o <<")", " ">> ELSE <<>>) \o escape(token.text)

RECURSIVE token_loop(_, _, _)
token_loop(toks, k, flag) ==
    IF k = 0 THEN <<>>
    ELSE token_loop(toks, k - 1, flag)
            \o NODE(IntStr(k - 1), token_label(k - 1, toks[k], flag))

\* Mutant of edge_step: sentence_index is not decremented.
edge_step_no_decrement(st, r) ==
    LET edge == st.items[r] IN
    IF edge.relationship = ROOT
    THEN LET node == IntStr(st.sentence_index)
                        \o <<" ", "[", "l", "a", "b", "e", "l", "=", "\"", "S">>
                        \o IntStr(-st.sentence_index) \o <<"\"", "]">>
             edge2 == [edge EXCEPT !.governorTokenIndex = st.sentence_index]
         IN [digraph |-> st.digraph \o node \o EDGE(edge2) \o <<"\n">>,
             items |-> [st.items EXCEPT ![r] = edge2],
             sentence_index |-> st.sentence_index]
    ELSE [st EXCEPT !.digraph = st.digraph \o EDGE(edge) \o <<"\n">>]

\* Mutant of edge_step: the governor of a root edge is not rewritten.
edge_step_no_rewrite(st, r) ==
    LET edge == st.items[r] IN
    IF edge.relationship = ROOT
    THEN LET node == IntStr(st.sentence_index)
                        \o <<" ", "[", "l", "a", "b", "e", "l", "=", "\"", "S">>
                        \o IntStr(-st.sentence_index) \o <<"\"", "]">>
         IN [digraph |-> st.digraph \o node \o EDGE(edge) \o <<"\n">>,
             items |-> st.items,
             sentence_index |-> st.sentence_index - 1]
    ELSE [st EXCEPT !.digraph = st.digraph \o EDGE(edge) \o <<"\n">>]

\* One iteration of the second loop, for the edge object at reference r.
\* st = [digraph, items, sentence_index]; items is the document's dependency
\* list, whose dicts the loop writes to.
edge_step(st, r) ==
    LET edge == st.items[r] IN
    IF edge.relationship = ROOT
    THEN LET node == IntStr(st.sentence_index)
                        \o <<" ", "[", "l", "a", "b", "e", "l", "=", "\"", "S">>
                        \o IntStr(-st.sentence_index) \o <<"\"", "]">>
             edge2 == [edge EXCEPT !.governorTokenIndex = st.sentence_index]
         IN [digraph |-> st.digraph \o node \o EDGE(edge2) \o <<"\n">>,
             items |-> [st.items EXCEPT ![r] = edge2],
             sentence_index |-> st.sentence_index - 1]
    ELSE [st EXCEPT !.digraph = st.digraph \o EDGE(edge) \o <<"\n">>]

RECURSIVE edge_loop(_, _, _)
edge_loop(st, refs, k) ==
    IF k = 0 THEN st ELSE edge_step(edge_loop(st, refs, k - 1), refs[k])

\* The whole function: the text it returns and the document it leaves.
deps_to_graph(doc, flag) ==
    LET head == <<"d", "i", "g", "r", "a", "p", "h", " ", "G", "{">> \o STYLE
        nodes == token_loop(tokens(doc), Len(doc.token), flag)
        refs == dependency_refs(doc)
        st == edge_loop([digraph |-> head \o nodes, items |-> doc.dependency,
                         sentence_index |-> -1], refs, Len(refs))
    IN [digraph |-> st.digraph \o <<"}", "\n">>,
        adm |-> [doc EXCEPT !.dependency = st.items],
        sentence_index |-> st.sentence_index]


(***************************************************************************)
(* make_svg: Popen raising OSError (no dot executable) and any text on     *)
(* dot's stderr both end in a raised Exception; otherwise dot's stdout is  *)
(* returned.  outcome is what the renderer does: "missing" (no executable),*)
(* "stderr" (it wrote to stderr), "ok" (it wrote nothing to stderr; its     *)
(* exit status is not looked at).                                          *)
(***************************************************************************)
\* Mutant of make_svg: text on dot's stderr is not looked at.
make_svg_ignoring_stderr(outcome) == [raised |-> outcome = "missing"]

make_svg(outcome) == [raised |-> outcome \in {"missing", "stderr"}]

\* key = os.environ.get('ROSETTE_USER_KEY') or args.key or getpass(...)
\* An operand of `or` is taken when it is truthy: neither None nor ''.
Truthy(opt) == opt # <<>> /\ opt[1] # ""

needs_prompt(env, arg) == ~Truthy(env) /\ ~Truthy(arg)

resolve_key(env, arg, typed) ==
    IF Truthy(env) THEN env ELSE IF Truthy(arg) THEN arg ELSE <<typed>>

(***************************************************************************)
(* The documents given to deps_to_graph.                                   *)
(***************************************************************************)
NSUBJ == <<"n", "s", "u", "b", "j">>

Words ==
    << <<"a">>, <<"[", "b", "]">>, <<"c", "\"", "d">>, <<"(", "e", ")", "\\">> >>

\* The k-th token (0-based) of a text, in text order.
Tok(k) == [text |-> Words[(k % Len(Words)) + 1],
           startOffset |-> 2 * k, endOffset |-> 2 * k + 1]

Injective(f) == \A i, j \in DOMAIN f : f[i] = f[j] => i = j

Perms(n) == {p \in [1..n -> 1..n] : Injective(p)}

Edge(rel, g, d) ==
    [relationship |-> rel, governorTokenIndex |-> g, dependencyTokenIndex |-> d]

\* The edges over n tokens, as the service gives them: a root edge has
\* governor -1, any other edge has another token as its governor.
EdgeUniverse(n) ==
    {Edge(ROOT, -1, d) : d \in 0..(n - 1)}
    \cup {Edge(NSUBJ, e[1], e[2]) :
            e \in {x \in (0..(n - 1)) \X (0..(n - 1)) : x[1] # x[2]}}

\* A dependency list over n tokens: distinct edges, in any order.
IsEdgeList(es) == Injective(es)

\* The document whose tokens are listed in the order p and whose edges are es.
Document(p, es) ==
    [token |-> [k \in DOMAIN p |-> Tok(p[k] - 1)], dependency |-> es]

\* The five-token document of the request docstring (lines 103-162).
FiveTokens ==
    [token |->
        << [text |-> <<"T", "h", "i", "s">>, startOffset |-> 0, endOffset |-> 4],
           [text |-> <<"i", "s">>, startOffset |-> 5, endOffset |-> 7],
           [text |-> <<"a">>, startOffset |-> 8, endOffset |-> 9],
           [text |-> <<"s", "e", "n", "t", "e", "n", "c", "e">>,
            startOffset |-> 10, endOffset |-> 18],
           [text |-> <<".">>, startOffset |-> 18, endOffset |-> 19] >>,
     dependency |->
        << Edge(NSUBJ, 3, 0), Edge(<<"c", "o", "p">>, 3, 1),
           Edge(<<"d", "e", "t">>, 3, 2), Edge(ROOT, -1, 3),
           Edge(<<"p", "u", "n", "c", "t">>, 3, 4) >>]

\* Three one-word sentences: three root edges.
ThreeRoots ==
    [token |-> <<Tok(0), Tok(1), Tok(2)>>,
     dependency |-> <<Edge(ROOT, -1, 2), Edge(ROOT, -1, 0), Edge(ROOT, -1, 1)>>]

\* The documents a caller may hold: up to MaxTokens tokens in any order, up
\* to MaxEdges edges in any order; and the two examples.
IsFetched(doc) ==
    \/ \E n \in 0..MaxTokens : \E p \in Perms(n) : \E k \in 0..MaxEdges :
            \E es \in [1..k -> EdgeUniverse(n)] :
                IsEdgeList(es) /\ doc = Document(p, es)
    \/ doc \in {FiveTokens, ThreeRoots}

NoDocument == [token |-> <<>>, dependency |-> <<>>]

(***************************************************************************)
(* Initial values of the variables a specification does not use.           *)
(***************************************************************************)
GraphIdle ==
    /\ adm = NoDocument
    /\ index_labels = FALSE
    /\ calls = 0
    /\ fresh = NoDocument
    /\ adm_in = NoDocument
    /\ result = <<>>
    /\ first_result = <<>>

TokenIdle == ordered = <<>> /\ reordered = <<>>

EscapeIdle == text = <<>> /\ label = <<>> /\ stmt = [kind |-> "none"]

CliIdle ==
    /\ pc = "idle"
    /\ env_key = <<>>
    /\ arg_key = <<>>
    /\ prompt = <<>>
    /\ key = <<>>
    /\ out_arg = <<>>
    /\ fetches = 0
    /\ dot = "unused"
    /\ output = "none"
    /\ error = "none"

(***************************************************************************)
(* Spec: a caller that invokes deps_to_graph on one fetched document, any  *)
(* number of times, with one index_labels flag.                            *)
(***************************************************************************)
Init ==
    /\ IsFetched(adm)
    /\ index_labels \in BOOLEAN
    /\ calls = 0
    /\ fresh = adm
    /\ adm_in = adm
    /\ result = <<>>
    /\ first_result = <<>>
    /\ TokenIdle /\ EscapeIdle /\ CliIdle

\* One invocation of deps_to_graph(adm, index_labels).
DepsToGraph ==
    /\ calls < MaxCalls
    /\ LET r == deps_to_graph(adm, index_labels) IN
        /\ result' = r.digraph
        /\ adm' = r.adm
        /\ first_result' = IF calls = 0 THEN r.digraph ELSE first_result
    /\ adm_in' = adm
    /\ calls' = calls + 1
    /\ UNCHANGED <<index_labels, fresh, token_vars, escape_vars, cli_vars>>

Next == DepsToGraph

Spec == Init /\ [][Next]_vars

(***************************************************************************)
(* SpecTokens: tokens() applied to a document's token list, and then to a  *)
(* document holding its own result.                                        *)
(***************************************************************************)
TokenTexts == {<<"a">>, <<"b">>}

\* A token dict with both offsets, or (extent's default case) with neither.
TokenItems ==
    {[text |-> t, startOffset |-> s, endOffset |-> e] :
        t \in TokenTexts, s \in 0..MaxOffset, e \in 0..MaxOffset}
    \cup {[text |-> t] : t \in TokenTexts}

TokenLists == UNION {[1..k -> TokenItems] : k \in 0..MaxItems}

InitTokens ==
    /\ adm \in {[token |-> ts, dependency |-> <<>>] : ts \in TokenLists}
    /\ index_labels = FALSE
    /\ calls = 0
    /\ fresh = adm
    /\ adm_in = adm
    /\ result = <<>>
    /\ first_result = <<>>
    /\ TokenIdle /\ EscapeIdle /\ CliIdle

CallTokens ==
    /\ ordered = <<>>
    /\ ordered' = <<tokens(adm)>>
    /\ UNCHANGED <<graph_vars, reordered, escape_vars, cli_vars>>

CallTokensAgain ==
    /\ ordered # <<>>
    /\ reordered = <<>>
    /\ reordered' = <<tokens([adm EXCEPT !.token = ordered[1]])>>
    /\ UNCHANGED <<graph_vars, ordered, escape_vars, cli_vars>>

NextTokens == CallTokens \/ CallTokensAgain

SpecTokens == InitTokens /\ [][NextTokens]_vars

(***************************************************************************)
(* SpecEscape: escape and the two statement templates applied to a text.   *)
(***************************************************************************)
Alphabet == Special \cup {"a", "b"}

\* The token text of the escaping example.
ExampleText == <<"a", "[", "b", "]", "c", "\"", "d", "\\", "e", "(", "f", ")", "g">>

Texts == UNION {[1..k -> Alphabet] : k \in 0..MaxLen} \cup {ExampleText}

InitEscape ==
    /\ text \in Texts
    /\ label = <<>>
    /\ stmt = [kind |-> "none"]
    /\ GraphIdle /\ TokenIdle /\ CliIdle

CallEscape ==
    /\ label = <<>>
    /\ label' = <<escape(text)>>
    /\ UNCHANGED <<text, stmt, graph_vars, token_vars, cli_vars>>

\* Lines 199-201: the node statement of the token at index i with this text.
FormatNode ==
    /\ \E i \in {0, 10}, flag \in BOOLEAN :
        stmt' = [kind |-> "node", index |-> i, flag |-> flag,
                 out |-> NODE(IntStr(i), token_label(i, [text |-> text], flag))]
    /\ UNCHANGED <<text, label, graph_vars, token_vars, cli_vars>>

\* Line 207: the edge statement of an edge whose relationship is this text.
FormatEdge ==
    /\ \E g \in {-1, 0}, d \in {1, 12} :
        stmt' = [kind |-> "edge", governor |-> g, dependent |-> d,
                 out |-> EDGE(Edge(text, g, d))]
    /\ UNCHANGED <<text, label, graph_vars, token_vars, cli_vars>>

NextEscape == CallEscape \/ FormatNode \/ FormatEdge

SpecEscape == InitEscape /\ [][NextEscape]_vars

(***************************************************************************)
(* SpecCli: one run of the command line, statement by statement.  A call   *)
(* that raises ends the run: __main__ catches nothing.                     *)
(***************************************************************************)
KeyInputs == {<<>>, <<"">>, <<"k">>}

\* A response without the token and dependency containers.
Malformed == [attributes |-> <<>>]

well_formed(doc) == "token" \in DOMAIN doc /\ "dependency" \in DOMAIN doc

FetchedDocuments ==
    {FiveTokens, ThreeRoots, Malformed,
     [token |-> <<Tok(1), Tok(0)>>,
      dependency |-> <<Edge(NSUBJ, 1, 0), Edge(ROOT, -1, 1)>>]}

InitCli ==
    /\ pc = "key"
    /\ env_key \in KeyInputs
    /\ arg_key \in KeyInputs
    /\ out_arg \in {<<>>, <<"out.svg">>}
    /\ index_labels \in BOOLEAN
    /\ prompt = <<>>
    /\ key = <<>>
    /\ fetches = 0
    /\ dot = "unused"
    /\ output = "none"
    /\ error = "none"
    /\ adm = NoDocument
    /\ calls = 0
    /\ fresh = NoDocument
    /\ adm_in = NoDocument
    /\ result = <<>>
    /\ first_result = <<>>
    /\ TokenIdle /\ EscapeIdle

Raise(stmt_name) == pc' = "failed" /\ error' = stmt_name

\* Lines 308-312.  getpass is reached only when the environment and the
\* flag give nothing; it returns what was typed, or raises (no input).
ResolveKey ==
    /\ pc = "key"
    /\ \/ /\ ~needs_prompt(env_key, arg_key)
          /\ key' = resolve_key(env_key, arg_key, "")
          /\ pc' = "api"
          /\ UNCHANGED <<prompt, error>>
       \/ /\ needs_prompt(env_key, arg_key)
          /\ \E typed \in {"", "k"} :
                /\ prompt' = <<typed>>
                /\ key' = resolve_key(env_key, arg_key, typed)
          /\ pc' = "api"
          /\ UNCHANGED error
       \/ /\ needs_prompt(env_key, arg_key)
          /\ Raise("getpass")
          /\ UNCHANGED <<prompt, key>>
    /\ UNCHANGED <<graph_vars, token_vars, escape_vars, env_key, arg_key, out_arg,
                   fetches, dot, output>>

\* Lines 314-315: API(user_key=key, ...) keeps the key it is given, whatever
\* it is, and setUrlParameter sets an option; neither does any input/output.
MakeApi ==
    /\ pc = "api"
    /\ pc' = "content"
    /\ UNCHANGED <<graph_vars, token_vars, escape_vars, env_key, arg_key, prompt,
                   key, out_arg, fetches, dot, output, error>>

\* Line 316: get_content reads stdin or a file.
GetContent ==
    /\ pc = "content"
    /\ \/ pc' = "request" /\ UNCHANGED error
       \/ Raise("get_content")
    /\ UNCHANGED <<graph_vars, token_vars, escape_vars, env_key, arg_key, prompt,
                   key, out_arg, fetches, dot, output>>

\* Lines 317-323: request() sends the content to the service.
Request ==
    /\ pc = "request"
    /\ fetches' = fetches + 1
    /\ \/ /\ \E doc \in FetchedDocuments : adm' = doc /\ fresh' = doc /\ adm_in' = doc
          /\ pc' = "graph"
          /\ UNCHANGED error
       \/ /\ Raise("request")
          /\ UNCHANGED <<adm, fresh, adm_in>>
    /\ UNCHANGED <<index_labels, calls, result, first_result, token_vars, escape_vars,
                   env_key, arg_key, prompt, key, out_arg, dot, output>>

\* Line 324, innermost call: deps_to_graph(adm, args.label_indices).
BuildGraph ==
    /\ pc = "graph"
    /\ \/ /\ well_formed(adm)
          /\ LET r == deps_to_graph(adm, index_labels) IN
                /\ result' = r.digraph
                /\ first_result' = r.digraph
                /\ adm' = r.adm
          /\ adm_in' = adm
          /\ calls' = calls + 1
          /\ pc' = "svg"
          /\ UNCHANGED error
       \/ /\ ~well_formed(adm)
          /\ Raise("deps_to_graph")
          /\ UNCHANGED <<adm, adm_in, calls, result, first_result>>
    /\ UNCHANGED <<index_labels, fresh, token_vars, escape_vars, env_key, arg_key,
                   prompt, key, out_arg, fetches, dot, output>>

\* Line 324, middle call: make_svg(digraph).
MakeSvg ==
    /\ pc = "svg"
    /\ \E outcome \in {"missing", "stderr", "ok"} :
        /\ dot' = outcome
        /\ IF make_svg(outcome).raised
           THEN Raise("make_svg")
           ELSE pc' = "dump" /\ UNCHANGED error
    /\ UNCHANGED <<graph_vars, token_vars, escape_vars, env_key, arg_key, prompt,
                   key, out_arg, fetches, output>>

\* Line 324, outer call: dump(svg, args.output).  Opening the file may fail;
\* the print may fail after the file was opened.
Dump ==
    /\ pc = "dump"
    /\ \/ output' = "written" /\ pc' = "done" /\ UNCHANGED error
       \/ out_arg # <<>> /\ output' = "opened" /\ Raise("dump")
       \/ output' = "none" /\ Raise("dump")
    /\ UNCHANGED <<graph_vars, token_vars, escape_vars, env_key, arg_key, prompt,
                   key, out_arg, fetches, dot>>

NextCli ==
    ResolveKey \/ MakeApi \/ GetContent \/ Request \/ BuildGraph \/ MakeSvg \/ Dump

SpecCli == InitCli /\ [][NextCli]_vars

(***************************************************************************)
(* Properties.  Helpers on text.                                           *)
(***************************************************************************)
\* The positions at which the (non-empty) pattern p occurs in text s.
Occ(s, p) ==
    {i \in 1..(Len(s) - Len(p) + 1) :
        s[i] = p[1] /\ \A j \in 2..Len(p) : s[i + j - 1] = p[j]}

StartsWith(s, p) == Len(s) >= Len(p) /\ SubSeq(s, 1, Len(p)) = p

EndsWith(s, p) == Len(s) >= Len(p) /\ SubSeq(s, Len(s) - Len(p) + 1, Len(s)) = p

Count(s, x) == Cardinality({i \in DOMAIN s : s[i] = x})

SameItems(a, b) == Len(a) = Len(b) /\ \A i \in DOMAIN a : Count(a, a[i]) = Count(b, a[i])

LabelOpen == <<" ", "[", "l", "a", "b", "e", "l", "=", "\"">>

LabelClose == <<"\"", "]">>

Arrow == <<" ", "-", ">", " ">>

IsRoot(edge) == edge.relationship = <<"r", "o", "o", "t">>

\* The references of the root edges of doc, in the order deps_to_graph
\* processes them.
RootRefs(doc) ==
    SelectSeq(dependency_refs(doc), LAMBDA r : IsRoot(doc.dependency[r]))

(***************************************************************************)
(* C1.  Every invocation of deps_to_graph on the same document with the    *)
(* same flag returns the text the first invocation returned.               *)
(***************************************************************************)
PureOutput == calls >= 1 => result = first_result

(***************************************************************************)
(* C2.  deps_to_graph leaves the document as it found it: after a call     *)
(* every token and every edge has the field values it had before it.       *)
(***************************************************************************)
DocumentReadOnly == calls >= 1 => adm = adm_in

(***************************************************************************)
(* C3.  The returned text is wrapped in digraph G{ ... }, every node and   *)
(* edge statement (each ends with "]) is followed by a newline, and no two *)
(* statements (each has one [label=") are on the same line.                *)
(***************************************************************************)
StatementsNewlineTerminated ==
    calls >= 1 =>
        /\ StartsWith(result, <<"d", "i", "g", "r", "a", "p", "h", " ", "G", "{">>)
        /\ EndsWith(result, <<"}", "\n">>)
        /\ \A i \in Occ(result, LabelClose) : result[i + 2] = "\n"
        /\ \A i, j \in Occ(result, LabelOpen) :
                i < j => \E k \in (i + 1)..(j - 1) : result[k] = "\n"

(***************************************************************************)
(* C4.  In every invocation the k-th root edge in processed order gets the *)
(* synthetic index -k and the label Sk: its governor becomes -k, the node  *)
(* statement -k [label="Sk"] is emitted once, in the order of k, and there *)
(* is one synthetic node per root edge, whatever earlier invocations did.  *)
(***************************************************************************)
SyntheticNode(k) ==
    IntStr(-k) \o LabelOpen \o <<"S">> \o IntStr(k) \o LabelClose

SyntheticNumbering ==
    calls >= 1 =>
        LET rr == RootRefs(adm_in)
            at == [k \in 1..Len(rr) |-> Occ(result, SyntheticNode(k))]
        IN /\ \A k \in 1..Len(rr) :
                /\ adm.dependency[rr[k]].governorTokenIndex = -k
                /\ Cardinality(at[k]) = 1
                /\ Occ(result, IntStr(-k) \o Arrow
                        \o IntStr(adm_in.dependency[rr[k]].dependencyTokenIndex)
                        \o LabelOpen) # {}
                /\ \A j \in 1..(k - 1) : \A p \in at[j], q \in at[k] : p < q
           /\ Cardinality(Occ(result, LabelOpen \o <<"S">>)) = Len(rr)

SyntheticNumberingWitness ==
    /\ calls >= 2
    /\ Len(RootRefs(adm_in)) = 3
    /\ Occ(result, SyntheticNode(3)) # {}

(***************************************************************************)
(* C5.  escape(text) is text with one backslash added before each of the   *)
(* six characters [ ] ( ) " \ and nothing else changed; a node statement   *)
(* carries the escaped token text, an edge statement the relation label as *)
(* it is.                                                                  *)
(***************************************************************************)
SixCharacters == {"[", "]", "(", ")", "\"", "\\"}

NumSpecial(t, k) == Cardinality({j \in 1..k : t[j] \in SixCharacters})

IsEscapeOf(out, in) ==
    /\ Len(out) = Len(in) + NumSpecial(in, Len(in))
    /\ \A k \in 1..Len(in) :
        LET q == k + NumSpecial(in, k) IN
            /\ out[q] = in[k]
            /\ in[k] \in SixCharacters => out[q - 1] = "\\"

ExampleLabel ==
    <<"a", "\\", "[", "b", "\\", "]", "c", "\\", "\"", "d", "\\", "\\", "e", "\\",
      "(", "f", "\\", ")", "g">>

EscapeCorrect ==
    /\ label # <<>> =>
        /\ IsEscapeOf(label[1], text)
        /\ text = ExampleText => label[1] = ExampleLabel
    /\ stmt.kind = "node" =>
        LET pre == IntStr(stmt.index) \o LabelOpen
                    \o (IF stmt.flag
                        THEN <<"(">> \o IntStr(stmt.index) \o <<")", " ">> ELSE <<>>)
            n == Len(stmt.out)
        IN /\ StartsWith(stmt.out, pre)
           /\ EndsWith(stmt.out, LabelClose \o <<"\n">>)
           /\ IsEscapeOf(SubSeq(stmt.out, Len(pre) + 1, n - 3), text)
    /\ stmt.kind = "edge" =>
        stmt.out = IntStr(stmt.governor) \o Arrow \o IntStr(stmt.dependent)
                        \o LabelOpen \o text \o LabelClose

EscapeCorrectWitness ==
    /\ text = ExampleText
    /\ label = <<ExampleLabel>>
    /\ stmt.kind = "node"
    /\ stmt.flag

(***************************************************************************)
(* C6.  The first invocation on a fetched document with n tokens and m     *)
(* edges, r of them root edges, emits n + r node statements and m edge     *)
(* statements: node i carries the text of the token that is i-th by        *)
(* (startOffset, endOffset), nodes -1..-r are the synthetic ones, the k-th *)
(* root edge (by dependent, all root governors being -1) is emitted as     *)
(* -k -> dependent, and every other edge with its own governor, dependent  *)
(* and relation.                                                           *)
(***************************************************************************)
StartsBefore(a, b) ==
    \/ a.startOffset < b.startOffset
    \/ a.startOffset = b.startOffset /\ a.endOffset < b.endOffset

\* The position of token t in the order by offsets.
TokenRank(doc, t) ==
    Cardinality({j \in DOMAIN doc.token : StartsBefore(doc.token[j], t)})

\* The 1-based position of root edge e among the root edges, by dependent.
RootRank(doc, e) ==
    1 + Cardinality({j \in DOMAIN doc.dependency :
            /\ IsRoot(doc.dependency[j])
            /\ doc.dependency[j].dependencyTokenIndex < e.dependencyTokenIndex})

NodeLine(i, flag, token_text) ==
    <<"\n">> \o IntStr(i) \o LabelOpen
        \o (IF flag THEN <<"(">> \o IntStr(i) \o <<")", " ">> ELSE <<>>)
        \o escape(token_text) \o LabelClose \o <<"\n">>

EdgeText(g, d, rel) ==
    IntStr(g) \o Arrow \o IntStr(d) \o LabelOpen \o rel \o LabelClose \o <<"\n">>

GraphOfFreshDocument ==
    calls = 1 =>
        LET n == Len(fresh.token)
            m == Len(fresh.dependency)
            r == Cardinality({j \in DOMAIN fresh.dependency : IsRoot(fresh.dependency[j])})
        IN /\ Cardinality(Occ(result, LabelOpen)) = n + r + m
           /\ Cardinality(Occ(result, Arrow)) = m
           /\ \A j \in DOMAIN fresh.token :
                LET t == fresh.token[j] IN
                    Cardinality(Occ(result,
                        NodeLine(TokenRank(fresh, t), index_labels, t.text))) = 1
           /\ \A k \in 1..r : Cardinality(Occ(result, SyntheticNode(k))) = 1
           /\ \A j \in DOMAIN fresh.dependency :
                LET e == fresh.dependency[j] IN
                    IF IsRoot(e)
                    THEN Cardinality(Occ(result,
                            EdgeText(-RootRank(fresh, e), e.dependencyTokenIndex,
                                     e.relationship))) = 1
                    ELSE Cardinality(Occ(result, <<"\n">> \o
                            EdgeText(e.governorTokenIndex, e.dependencyTokenIndex,
                                     e.relationship))) = 1

\* The five-token example: 6 node statements, 5 edge statements, -1 -> 3.
GraphOfFreshDocumentWitness ==
    /\ calls = 1
    /\ fresh = FiveTokens
    /\ Cardinality(Occ(result, LabelOpen)) = 11
    /\ Cardinality(Occ(result, Arrow)) = 5
    /\ Occ(result, SyntheticNode(1) \o EdgeText(-1, 3, <<"r", "o", "o", "t">>)) # {}

(***************************************************************************)
(* C7.  dependencies(doc) is a permutation of the document's edges in      *)
(* ascending order of (governorTokenIndex, dependencyTokenIndex), so every *)
(* root edge comes before every edge with a non-negative governor.  It     *)
(* holds of the document each invocation of deps_to_graph consumed, and of *)
(* the document it left.                                                   *)
(***************************************************************************)
EdgeOrdered(a, b) ==
    \/ a.governorTokenIndex < b.governorTokenIndex
    \/ /\ a.governorTokenIndex = b.governorTokenIndex
       /\ a.dependencyTokenIndex <= b.dependencyTokenIndex

SortedEdgesOf(doc) ==
    LET es == dependencies(doc) IN
        /\ SameItems(es, doc.dependency)
        /\ \A i \in 1..(Len(es) - 1) : EdgeOrdered(es[i], es[i + 1])
        /\ \A i, j \in DOMAIN es :
            (IsRoot(es[i]) \/ es[i].governorTokenIndex = -1)
                /\ es[j].governorTokenIndex >= 0 => i < j

DependenciesSorted == SortedEdgesOf(adm_in) /\ SortedEdgesOf(adm)

\* A second invocation consumed edges that the sort had to reorder, among
\* them a root edge and an edge with a token as governor.
DependenciesSortedWitness ==
    /\ calls >= 2
    /\ dependencies(adm_in) # adm_in.dependency
    /\ \E i, j \in DOMAIN adm_in.dependency :
        /\ i < j
        /\ adm_in.dependency[i].governorTokenIndex >= 0
        /\ IsRoot(adm_in.dependency[j])

(***************************************************************************)
(* C8.  tokens(doc) is a permutation of the document's tokens in ascending *)
(* order of (startOffset, endOffset), a missing offset counting as -1;     *)
(* tokens with identical offsets keep their relative order; applied to its *)
(* own result it returns that result.                                      *)
(***************************************************************************)
OffsetsOf(t) ==
    << IF "startOffset" \in DOMAIN t THEN t.startOffset ELSE -1,
       IF "endOffset" \in DOMAIN t THEN t.endOffset ELSE -1 >>

OffsetsOrdered(a, b) ==
    LET x == OffsetsOf(a)
        y == OffsetsOf(b)
    IN x[1] < y[1] \/ (x[1] = y[1] /\ x[2] <= y[2])

WithOffsets(s, k) == SelectSeq(s, LAMBDA t : OffsetsOf(t) = k)

TokensSorted ==
    /\ ordered # <<>> =>
        LET ts == ordered[1] IN
            /\ SameItems(ts, adm.token)
            /\ \A i \in 1..(Len(ts) - 1) : OffsetsOrdered(ts[i], ts[i + 1])
            /\ \A i \in DOMAIN ts :
                WithOffsets(ts, OffsetsOf(ts[i])) = WithOffsets(adm.token, OffsetsOf(ts[i]))
    /\ reordered # <<>> => reordered[1] = ordered[1]

\* Three tokens out of order, two of them with the same offsets and
\* different texts, sorted twice.
TokensSortedWitness ==
    /\ reordered # <<>>
    /\ Len(adm.token) = 3
    /\ ordered[1] # adm.token
    /\ \E i, j \in DOMAIN adm.token :
        /\ i < j
        /\ OffsetsOf(adm.token[i]) = OffsetsOf(adm.token[j])
        /\ adm.token[i].text # adm.token[j].text

(***************************************************************************)
(* C9.  The output is touched only after the fetch, the graph construction *)
(* and the rendering have all succeeded: whenever the output was opened or *)
(* written, one request was made, the graph was built, dot was found and   *)
(* wrote nothing to stderr, and no earlier statement raised; a run that    *)
(* failed before dump has no output.                                       *)
(***************************************************************************)
WriteOnlyAfterRender ==
    /\ output # "none" =>
        /\ fetches = 1
        /\ calls = 1
        /\ result # <<>>
        /\ dot = "ok"
        /\ error \in {"none", "dump"}
    /\ (pc = "failed" /\ error # "dump") => output = "none"
    /\ dot \in {"missing", "stderr"} => pc = "failed" /\ output = "none"

WriteOnlyAfterRenderWitness ==
    /\ pc = "failed"
    /\ error = "make_svg"
    /\ dot = "stderr"
    /\ output = "none"

(***************************************************************************)
(* C10.  With no key in the environment, none given by the flag and none   *)
(* typed at the prompt, the run fails before any request is made.          *)
(***************************************************************************)
NoKeyNoFetch ==
    (~Truthy(env_key) /\ ~Truthy(arg_key) /\ ~Truthy(prompt)) => fetches = 0

====
